---- MODULE Spec2Model ----
(***************************************************************************)
(* Model of mcp-weather-sse.py: the weather formatters of WeatherSSEServer *)
(* (_format_current_weather, _format_forecast, _get_wind_direction).       *)
(*                                                                         *)
(* Provider documents are JSON values.  A value is a record with a tag:    *)
(*   absent  the key is not in the enclosing mapping                       *)
(*   num     a number            (val: integer)                            *)
(*   str     a string            (val: a TLA+ string, or for dt_txt the    *)
(*                                tuple of its characters)                 *)
(*   seq     a list              (val: tuple of values)                    *)
(*   map     a mapping           (val: record key -> value; a key whose    *)
(*                                value is Absent is not in the mapping)   *)
(*   exc     no value: the Python expression raised (val: the exception    *)
(*           class name)                                                   *)
(* Angles are carried in hundredths of a degree.                           *)
(***************************************************************************)
EXTENDS Integers, Sequences, FiniteSets, TLC

VARIABLES request, hashSeed, pc, daily_forecasts, result, first

vars == <<request, hashSeed, pc, daily_forecasts, result, first>>

None == [tag |-> "none"]

----------------------------------------------------------------------------
(* JSON values and the Python operations the formatters apply to them.     *)

Absent == [tag |-> "absent"]
Num(n) == [tag |-> "num", val |-> n]
Str(s) == [tag |-> "str", val |-> s]
List(s) == [tag |-> "seq", val |-> s]
Map(m) == [tag |-> "map", val |-> m]
Exc(e) == [tag |-> "exc", val |-> e]

IsExc(v) == v.tag = "exc"

\* The empty dict {}.
EmptyDict == Map([k \in {} |-> Absent])

\* key in d
HasKey(d, key) == key \in DOMAIN d.val /\ d.val[key].tag # "absent"

\* d.get(key, default): only a dict has .get; a missing key gives the default.
DictGet(d, key, default) ==
    CASE d.tag = "exc" -> d
      [] d.tag = "map" -> IF HasKey(d, key) THEN d.val[key] ELSE default
      [] OTHER -> Exc("AttributeError")

\* v[0]
Subscript0(v) ==
    CASE v.tag = "exc" -> v
      [] v.tag = "seq" -> IF Len(v.val) = 0 THEN Exc("IndexError") ELSE v.val[1]
      [] v.tag = "map" -> Exc("KeyError")
      [] OTHER -> Exc("TypeError")

\* The first exception raised by a sequence of evaluations, in statement order.
RECURSIVE FirstExc(_)
FirstExc(vs) ==
    IF vs = <<>> THEN None
    ELSE IF IsExc(Head(vs)) THEN Head(vs) ELSE FirstExc(Tail(vs))

\* Variant of PyRound: ties go up.
PyRoundHalfUp(num, den) == (2 * num + den) \div (2 * den)

\* Variant of PyRound: the quotient is truncated, as int() would.
PyRoundFloor(num, den) == num \div den

\* round(num / den) for den > 0: Python rounds to the nearest integer, ties
\* to even.  A '.0f' format rounds the same way.

PyRound(num, den) ==
    LET q == num \div den
        r == num % den
    IN  IF 2 * r < den THEN q
        ELSE IF 2 * r > den THEN q + 1
        ELSE IF q % 2 = 0 THEN q ELSE q + 1

----------------------------------------------------------------------------
(* _get_wind_direction                                                     *)

FullCircle == 360

directions ==
    << "N", "NNE", "NE", "ENE", "E", "ESE", "SE", "SSE",
       "S", "SSW", "SW", "WSW", "W", "WNW", "NW", "NNW" >>

\* Variant of _get_wind_direction: int() in place of round().
GetWindDirectionTruncating(degrees) ==
    directions[(PyRoundFloor(degrees * Len(directions), FullCircle * 100) % Len(directions)) + 1]

\* Variant of _get_wind_direction: ties go to the sector above.
GetWindDirectionHalfUp(degrees) ==
    directions[(PyRoundHalfUp(degrees * Len(directions), FullCircle * 100) % Len(directions)) + 1]

\* degrees is in hundredths of a degree, so degrees / (360 / 16) is the
\* quotient (degrees * 16) / (360 * 100).  Every tie (2k+1) * 11.25 and the
\* width 22.5 are binary fractions, so the float quotient at a tie is exact.
_get_wind_direction(degrees) ==
    directions[(PyRound(degrees * Len(directions), FullCircle * 100) % Len(directions)) + 1]

WindRequests == [op : {"wind"}, degrees : 0..(FullCircle * 100)]

InitWind ==
    /\ request \in WindRequests
    /\ hashSeed = 1
    /\ pc = "ready"
    /\ daily_forecasts = <<>>
    /\ result = None
    /\ first = None

GetWindDirection ==
    /\ request.op = "wind"
    /\ pc = "ready"
    /\ result' = Str(_get_wind_direction(request.degrees))
    /\ pc' = "done"
    /\ first' = result'
    /\ UNCHANGED <<request, hashSeed, daily_forecasts>>

NextWind == GetWindDirection

SpecWind == InitWind /\ [][NextWind]_vars

----------------------------------------------------------------------------
(* Strings: str.lower() and str.capitalize() on the strings that occur.    *)

CaseTable ==
    << <<"Unknown", "unknown", "Unknown">>,
       <<"unknown", "unknown", "Unknown">>,
       <<"Rain", "rain", "Rain">>,
       <<"rain", "rain", "Rain">>,
       <<"Clear", "clear", "Clear">>,
       <<"clear", "clear", "Clear">>,
       <<"light rain", "light rain", "Light rain">>,
       <<"Light rain", "light rain", "Light rain">>,
       <<"clear sky", "clear sky", "Clear sky">>,
       <<"Clear sky", "clear sky", "Clear sky">> >>

\* The lower-cased condition names that occur.
Conditions == <<"clear", "rain", "unknown">>

\* A process's string hash seed: it fixes the order in which a set of
\* condition names is iterated.  Seed k iterates in the order of Conditions
\* rotated to start at its k-th name, so every member of a set can come first.
Seeds == 1..Len(Conditions)

CaseRow(s) == CHOOSE i \in 1..Len(CaseTable) : CaseTable[i][1] = s

Lower(s) == CaseTable[CaseRow(s)][2]

Capitalize(s) == CaseTable[CaseRow(s)][3]

\* s.capitalize() on a value: an exception stays the exception.
CapitalizeValue(v) == IF IsExc(v) THEN v ELSE Str(Capitalize(v.val))

\* The unit suffixes; "C" and "F" stand for the degree signs.
TempUnit(units) == IF units = "metric" THEN "C" ELSE "F"

SpeedUnit(units) == IF units = "metric" THEN "m/s" ELSE "mph"

\* What the except clause of a formatter does with an exception raised in
\* its try block: KeyError and IndexError are caught and an error text is
\* returned, anything else leaves the call.
Recover(e) ==
    IF e.val \in {"KeyError", "IndexError"}
    THEN [kind |-> "error", detail |-> e.val]
    ELSE [kind |-> "raised", exc |-> e.val]

----------------------------------------------------------------------------
(* _format_current_weather                                                 *)

\* Variant of PrecipitationEntry: without the test "if rain_1h > 0".
PrecipitationEntryUnguarded(data, what) ==
    IF HasKey(data, what)
    THEN <<[what |-> what, mm |-> DictGet(data.val[what], "1h", Num(0)).val]>>
    ELSE <<>>

\* The precipitation sentence of data[what] ("rain" or "snow"): its 1h
\* amount, when the key is present and the amount positive.
PrecipitationEntry(data, what) ==
    IF HasKey(data, what) /\ DictGet(data.val[what], "1h", Num(0)).val > 0
    THEN <<[what |-> what, mm |-> DictGet(data.val[what], "1h", Num(0)).val]>>
    ELSE <<>>

Summary(weather_main, temp) ==
    CASE Lower(weather_main) \in {"rain", "drizzle", "thunderstorm"} -> "umbrella"
      [] Lower(weather_main) = "snow" -> "bundle up"
      [] Lower(weather_main) = "clear" /\ temp > 20 -> "outdoor activities"
      [] Lower(weather_main) = "clear" /\ temp < 10 -> "clear but chilly"
      [] OTHER -> "typical"

\* The default of data.get('weather', [{}]).
DefaultWeather == List(<<EmptyDict>>)

_format_current_weather(data, units) ==
    LET location_name == DictGet(data, "name", Str("Unknown"))
        country == DictGet(DictGet(data, "sys", EmptyDict), "country", Str("Unknown"))
        temp == DictGet(DictGet(data, "main", EmptyDict), "temp", Num(0))
        feels_like == DictGet(DictGet(data, "main", EmptyDict), "feels_like", Num(0))
        humidity == DictGet(DictGet(data, "main", EmptyDict), "humidity", Num(0))
        pressure == DictGet(DictGet(data, "main", EmptyDict), "pressure", Num(0))
        wind_speed == DictGet(DictGet(data, "wind", EmptyDict), "speed", Num(0))
        wind_deg == DictGet(DictGet(data, "wind", EmptyDict), "deg", Num(0))
        weather_main ==
            DictGet(Subscript0(DictGet(data, "weather", DefaultWeather)), "main", Str("Unknown"))
        weather_desc ==
            CapitalizeValue(
                DictGet(Subscript0(DictGet(data, "weather", DefaultWeather)),
                        "description", Str("Unknown")))
        visibility == DictGet(data, "visibility", Num(0))
        cloudiness == DictGet(DictGet(data, "clouds", EmptyDict), "all", Num(0))
        rain_1h == IF HasKey(data, "rain")
                   THEN DictGet(data.val["rain"], "1h", Num(0)) ELSE Num(0)
        snow_1h == IF HasKey(data, "snow")
                   THEN DictGet(data.val["snow"], "1h", Num(0)) ELSE Num(0)
        raised == FirstExc(<<location_name, country, temp, feels_like, humidity,
                             pressure, wind_speed, wind_deg, weather_main,
                             weather_desc, visibility, cloudiness, rain_1h, snow_1h>>)
    IN  IF raised # None THEN Recover(raised)
        ELSE [kind |-> "report",
              location |-> location_name.val,
              country |-> country.val,
              temp |-> temp.val,
              temp_unit |-> TempUnit(units),
              description |-> Lower(weather_desc.val),
              feels_like |-> feels_like.val,
              wind |-> IF wind_speed.val > 0
                       THEN <<_get_wind_direction(wind_deg.val), wind_speed.val,
                              SpeedUnit(units)>>
                       ELSE <<"calm">>,
              humidity |-> humidity.val,
              clouds |-> IF cloudiness.val > 0 THEN <<cloudiness.val>> ELSE <<>>,
              \* visibility / 1000 printed with '.1f': tenths of a kilometre
              \* (exact for the multiples of 100 m that occur)
              visibility_km10 |-> PyRound(visibility.val, 100),
              pressure |-> pressure.val,
              precipitation |-> PrecipitationEntry(data, "rain")
                                \o PrecipitationEntry(data, "snow"),
              condition |-> Lower(weather_main.val),
              summary |-> Summary(weather_main.val, temp.val)]

\* A number where the formatter expects a mapping or a list.
Scalar == Num(7)

MainFull == Map([temp |-> Num(25), feels_like |-> Num(27), humidity |-> Num(60),
                 pressure |-> Num(1013)])

CurrentDocs ==
    { Map([name |-> lv[1], visibility |-> lv[2], sys |-> s, main |-> m,
           wind |-> w, weather |-> wt, clouds |-> c, rain |-> r, snow |-> sn]) :
        lv \in { <<Absent, Absent>>, <<Str("London"), Num(10000)>> },
        s \in { Absent, Scalar, Map([country |-> Str("GB")]) },
        m \in { Absent, Scalar, MainFull },
        w \in { Absent, Scalar, Map([speed |-> Num(3), deg |-> Num(1125)]) },
        wt \in { Absent, List(<<>>), Scalar, List(<<EmptyDict>>),
                 List(<<Map([main |-> Str("Clear"), description |-> Str("clear sky")])>>) },
        c \in { Absent, Scalar, Map([all |-> Num(40)]) },
        r \in { Absent, Scalar, EmptyDict, Map([1h |-> Num(0)]), Map([1h |-> Num(3)]) },
        sn \in { Absent, EmptyDict, Map([1h |-> Num(2)]) } }

CurrentRequests == [op : {"current"}, data : CurrentDocs, units : {"metric", "imperial"}]

InitCurrent ==
    /\ request \in CurrentRequests
    /\ hashSeed \in Seeds
    /\ pc = "ready"
    /\ daily_forecasts = <<>>
    /\ result = None
    /\ first = None

\* A call of the formatter; after the first call the same document may be
\* formatted again.
FormatCurrentWeather ==
    /\ request.op = "current"
    /\ result' = _format_current_weather(request.data, request.units)
    /\ pc' = "done"
    /\ first' = IF first = None THEN result' ELSE first
    /\ UNCHANGED <<request, hashSeed, daily_forecasts>>

\* The server process is started anew (main): Python draws a new string hash
\* seed, which fixes the iteration order of sets of strings for the process.
Restart ==
    /\ \E s \in Seeds \ {hashSeed} : hashSeed' = s
    /\ UNCHANGED <<request, pc, daily_forecasts, result, first>>

NextCurrent == FormatCurrentWeather \/ Restart

SpecCurrent == InitCurrent /\ [][NextCurrent]_vars

----------------------------------------------------------------------------
(* _format_forecast                                                        *)

Min(a, b) == IF a <= b THEN a ELSE b

\* s.split(sep) on a string given as the tuple of its characters.
RECURSIVE Split(_, _)
Split(s, sep) ==
    IF \A i \in 1..Len(s) : s[i] # sep THEN <<s>>
    ELSE LET i == CHOOSE j \in 1..Len(s) :
                     s[j] = sep /\ \A k \in 1..(j - 1) : s[k] # sep
         IN  <<SubSeq(s, 1, i - 1)>> \o Split(SubSeq(s, i + 1, Len(s)), sep)

\* parts[n] for a list of strings (n counted from 0).
Index(parts, n) ==
    IF n + 1 <= Len(parts) THEN Str(parts[n + 1]) ELSE Exc("IndexError")

\* The keys of the dict, in insertion order.
Keys(buckets) == [i \in 1..Len(buckets) |-> buckets[i].date]

HasBucket(buckets, date) == \E i \in 1..Len(buckets) : buckets[i].date = date

\* if date not in daily_forecasts: daily_forecasts[date] = []
EnsureBucket(buckets, date) ==
    IF HasBucket(buckets, date) THEN buckets
    ELSE Append(buckets, [date |-> date, forecasts |-> <<>>])

\* Variant of AppendEntry: insert(0, entry).
AppendEntryFront(buckets, date, entry) ==
    [i \in 1..Len(buckets) |->
        IF buckets[i].date = date
        THEN [buckets[i] EXCEPT !.forecasts = <<entry>> \o @]
        ELSE buckets[i]]

\* daily_forecasts[date].append(entry)
AppendEntry(buckets, date, entry) ==
    [i \in 1..Len(buckets) |->
        IF buckets[i].date = date
        THEN [buckets[i] EXCEPT !.forecasts = Append(@, entry)]
        ELSE buckets[i]]

\* The values one loop iteration reads from a sample, in evaluation order.
ItemReads(item) ==
    LET weather0 == Subscript0(DictGet(item, "weather", DefaultWeather))
    IN  [date |-> Index(Split(DictGet(item, "dt_txt", Str(<<>>)).val, " "), 0),
         time |-> Index(Split(DictGet(item, "dt_txt", Str(<<>>)).val, " "), 1),
         temp |-> DictGet(DictGet(item, "main", EmptyDict), "temp", Num(0)),
         feels_like |-> DictGet(DictGet(item, "main", EmptyDict), "feels_like", Num(0)),
         min_temp |-> DictGet(DictGet(item, "main", EmptyDict), "temp_min", Num(0)),
         max_temp |-> DictGet(DictGet(item, "main", EmptyDict), "temp_max", Num(0)),
         humidity |-> DictGet(DictGet(item, "main", EmptyDict), "humidity", Num(0)),
         weather_main |-> DictGet(weather0, "main", Str("Unknown")),
         weather_desc |-> CapitalizeValue(DictGet(weather0, "description", Str("Unknown"))),
         wind_speed |-> DictGet(DictGet(item, "wind", EmptyDict), "speed", Num(0)),
         wind_deg |-> DictGet(DictGet(item, "wind", EmptyDict), "deg", Num(0)),
         cloudiness |-> DictGet(DictGet(item, "clouds", EmptyDict), "all", Num(0)),
         rain |-> IF HasKey(item, "rain")
                  THEN DictGet(DictGet(item, "rain", EmptyDict), "3h", Num(0)) ELSE Num(0),
         snow |-> IF HasKey(item, "snow")
                  THEN DictGet(DictGet(item, "snow", EmptyDict), "3h", Num(0)) ELSE Num(0)]

\* The exception the dict literal of the entry raises, if any.
EntryExc(r) ==
    FirstExc(<<r.temp, r.feels_like, r.min_temp, r.max_temp, r.humidity,
               r.weather_main, r.weather_desc, r.wind_speed, r.wind_deg,
               r.cloudiness, r.rain, r.snow>>)

Entry(r) ==
    [time |-> r.time.val, temp |-> r.temp.val, feels_like |-> r.feels_like.val,
     min_temp |-> r.min_temp.val, max_temp |-> r.max_temp.val,
     humidity |-> r.humidity.val, weather_main |-> r.weather_main.val,
     weather_desc |-> r.weather_desc.val, wind_speed |-> r.wind_speed.val,
     wind_deg |-> r.wind_deg.val, cloudiness |-> r.cloudiness.val,
     rain |-> r.rain.val, snow |-> r.snow.val]

\* The loop "for item in forecast_list", from item i on: the dict when the
\* loop ends, and the exception that ended it early (None if it ran through).
RECURSIVE GroupByDate(_, _, _)
GroupByDate(forecast_list, i, buckets) ==
    IF i > Len(forecast_list) THEN [buckets |-> buckets, raised |-> None]
    ELSE LET r == ItemReads(forecast_list[i])
         IN  IF IsExc(r.date) THEN [buckets |-> buckets, raised |-> r.date]
             ELSE IF IsExc(r.time) THEN [buckets |-> buckets, raised |-> r.time]
             ELSE IF EntryExc(r) # None
                  THEN [buckets |-> EnsureBucket(buckets, r.date.val),
                        raised |-> EntryExc(r)]
             ELSE GroupByDate(forecast_list, i + 1,
                      AppendEntry(EnsureBucket(buckets, r.date.val), r.date.val, Entry(r)))

\* Variant of ForecastDates: the last days keys, [-days:].
ForecastDatesLast(buckets, days) ==
    SubSeq(Keys(buckets), Len(buckets) - Min(days, Len(buckets)) + 1, Len(buckets))

\* list(daily_forecasts.keys())[:days]
ForecastDates(buckets, days) ==
    IF days >= 0 THEN SubSeq(Keys(buckets), 1, Min(days, Len(buckets)))
    ELSE SubSeq(Keys(buckets), 1, Len(buckets) + days)

Bucket(buckets, date) ==
    buckets[CHOOSE i \in 1..Len(buckets) : buckets[i].date = date].forecasts

RECURSIVE SumOf(_, _)
SumOf(forecasts, field) ==
    IF forecasts = <<>> THEN 0
    ELSE Head(forecasts)[field] + SumOf(Tail(forecasts), field)

MaxOf(forecasts, field) ==
    LET vals == { forecasts[i][field] : i \in 1..Len(forecasts) }
    IN  CHOOSE v \in vals : \A w \in vals : w <= v

MinOf(forecasts, field) ==
    LET vals == { forecasts[i][field] : i \in 1..Len(forecasts) }
    IN  CHOOSE v \in vals : \A w \in vals : v <= w

\* weather_conditions.count(c)
Count(weather_conditions, c) ==
    Cardinality({ i \in 1..Len(weather_conditions) : weather_conditions[i] = c })

\* The order in which this process iterates a set of condition names.
SetIterationOrder(seed) ==
    [i \in 1..Len(Conditions) |-> Conditions[((seed + i - 2) % Len(Conditions)) + 1]]

\* max(set(weather_conditions), key=weather_conditions.count): the first name
\* in the set's iteration order whose count no other name exceeds.
MainCondition(weather_conditions) ==
    LET order == SetIterationOrder(hashSeed)
        present == { i \in 1..Len(order) : Count(weather_conditions, order[i]) > 0 }
        best == CHOOSE i \in present :
                    /\ \A j \in present :
                          Count(weather_conditions, order[j])
                              <= Count(weather_conditions, order[i])
                    /\ \A j \in present :
                          j < i => Count(weather_conditions, order[j])
                                       < Count(weather_conditions, order[i])
    IN  order[best]

\* The day's recommendation.  The source tests "rain" in main_condition and
\* so on; no condition name that occurs contains another one.
DaySummary(main_condition, max_temp, min_temp) ==
    CASE main_condition \in {"rain", "drizzle"} -> "umbrella"
      [] main_condition = "snow" -> "snowy"
      [] main_condition = "clear" /\ max_temp > 20 -> "outdoor activities"
      [] main_condition = "clear" /\ min_temp < 10 -> "clear but chilly"
      [] OTHER -> "typical"

\* Variant of DayStats: the statistics of all samples, whatever their date.
DayStatsOverAll(buckets, date) ==
    LET all == [i \in 1..Len(buckets) |-> buckets[i].forecasts]
        RECURSIVE Flatten(_)
        Flatten(ss) == IF ss = <<>> THEN <<>> ELSE Head(ss) \o Flatten(Tail(ss))
        forecasts == Flatten(all)
    IN  [max_temp |-> MaxOf(forecasts, "temp"),
         min_temp |-> MinOf(forecasts, "temp"),
         avg_humidity |-> [num |-> SumOf(forecasts, "humidity"), den |-> Len(forecasts)],
         total_rain |-> SumOf(forecasts, "rain"),
         total_snow |-> SumOf(forecasts, "snow")]

\* The daily statistics of one date.
DayStats(buckets, date) ==
    LET forecasts == Bucket(buckets, date)
    IN  [max_temp |-> MaxOf(forecasts, "temp"),
         min_temp |-> MinOf(forecasts, "temp"),
         avg_humidity |-> [num |-> SumOf(forecasts, "humidity"), den |-> Len(forecasts)],
         total_rain |-> SumOf(forecasts, "rain"),
         total_snow |-> SumOf(forecasts, "snow")]

\* One date's paragraph of the forecast text, or the exception raised on
\* the way.
DayParagraph(buckets, date, units) ==
    LET forecasts == Bucket(buckets, date)
        stats == DayStats(buckets, date)
        weather_conditions ==
            [i \in 1..Len(forecasts) |-> Lower(forecasts[i].weather_main)]
        main_condition == MainCondition(weather_conditions)
        parts == Split(date, "-")
        day == Index(parts, 2)
        month == Index(parts, 1)
    IN  IF IsExc(day) THEN day
        ELSE IF IsExc(month) THEN month
        ELSE [tag |-> "day",
              date |-> date,
              formatted_date |-> day.val \o <<"/">> \o month.val,
              main_condition |-> main_condition,
              min_temp |-> stats.min_temp,
              max_temp |-> stats.max_temp,
              temp_unit |-> TempUnit(units),
              avg_humidity |-> stats.avg_humidity,
              humidity_text |-> PyRound(stats.avg_humidity.num, stats.avg_humidity.den),
              rain |-> IF stats.total_rain > 0 THEN <<stats.total_rain>> ELSE <<>>,
              snow |-> IF stats.total_snow > 0 THEN <<stats.total_snow>> ELSE <<>>,
              total_rain |-> stats.total_rain,
              total_snow |-> stats.total_snow,
              timeline |-> [i \in 1..Len(forecasts) |->
                              [hour |-> Split(forecasts[i].time, ":")[1],
                               temp |-> forecasts[i].temp,
                               desc |-> Lower(forecasts[i].weather_desc),
                               wind_speed |-> forecasts[i].wind_speed,
                               speed_unit |-> SpeedUnit(units)]],
              summary |-> DaySummary(main_condition, stats.max_temp, stats.min_temp)]

\* The formatter's try block: the report or the exception, and the value of
\* the local daily_forecasts when the block is left.
ForecastRun(data, days, units) ==
    LET city_data == DictGet(data, "city", EmptyDict)
        forecast_list == DictGet(data, "list", List(<<>>))
        city_name == DictGet(city_data, "name", Str("Unknown"))
        country == DictGet(city_data, "country", Str("Unknown"))
        head == FirstExc(<<city_data, forecast_list, city_name, country>>)
        grouped == GroupByDate(forecast_list.val, 1, <<>>)
        forecast_dates == ForecastDates(grouped.buckets, days)
        paragraphs == [i \in 1..Len(forecast_dates) |->
                          DayParagraph(grouped.buckets, forecast_dates[i], units)]
    IN  IF head # None THEN [buckets |-> <<>>, out |-> head]
        ELSE IF grouped.raised # None
             THEN [buckets |-> grouped.buckets, out |-> grouped.raised]
        ELSE IF FirstExc(paragraphs) # None
             THEN [buckets |-> grouped.buckets, out |-> FirstExc(paragraphs)]
        ELSE [buckets |-> grouped.buckets,
              out |-> [tag |-> "ok",
                       val |-> [kind |-> "report",
                                days |-> days,
                                city |-> city_name.val,
                                country |-> country.val,
                                daily |-> paragraphs]]]

\* What the call gives for the outcome of its try block.
Outcome(out) == IF IsExc(out) THEN Recover(out) ELSE out.val

_format_forecast(data, days, units) == Outcome(ForecastRun(data, days, units).out)

MaxSamples == 3

MaxDays == 2

Date1 == <<"2", "4", "-", "0", "5", "-", "0", "1">>
Date2 == <<"2", "4", "-", "0", "5", "-", "0", "2">>
Date3 == <<"2", "4", "-", "0", "5", "-", "0", "3">>
Time06 == <<"0", "6", ":", "0", "0">>
Time09 == <<"0", "9", ":", "0", "0">>

DtTxt(date, time) == Str(date \o <<" ">> \o time)

Sample(dt_txt, main, weather, wind, clouds, rain, snow) ==
    Map([dt_txt |-> dt_txt, main |-> main, weather |-> weather, wind |-> wind,
         clouds |-> clouds, rain |-> rain, snow |-> snow])

MainOf(temp, humidity) ==
    Map([temp |-> Num(temp), feels_like |-> Num(temp), temp_min |-> Num(temp),
         temp_max |-> Num(temp), humidity |-> Num(humidity)])

WeatherOf(main, description) ==
    List(<<Map([main |-> Str(main), description |-> Str(description)])>>)

Samples ==
    { Sample(DtTxt(Date1, Time06), MainOf(5, 40), WeatherOf("Rain", "light rain"),
             Map([speed |-> Num(4), deg |-> Num(9000)]), Map([all |-> Num(90)]),
             Map([3h |-> Num(2)]), Absent),
      Sample(DtTxt(Date1, Time09), MainOf(25, 55), WeatherOf("Clear", "clear sky"),
             Absent, Absent, Absent, Absent),
      Sample(DtTxt(Date2, Time06), MainOf(12, 70), WeatherOf("Clear", "clear sky"),
             Absent, Absent, EmptyDict, Map([3h |-> Num(1)])),
      Sample(DtTxt(Date3, Time09), Absent, Absent, Absent, Absent, Absent, Absent),
      Sample(Absent, Absent, Absent, Absent, Absent, Absent, Absent),
      Sample(DtTxt(Date1, Time06), Scalar, WeatherOf("Rain", "light rain"),
             Absent, Absent, Absent, Absent) }

SampleLists == UNION { [1..n -> Samples] : n \in 0..MaxSamples }

ForecastDocs ==
    { Map([city |-> c, list |-> List(l)]) :
        c \in { Absent, Map([name |-> Str("London"), country |-> Str("GB")]) },
        l \in SampleLists }

ForecastRequests ==
    [op : {"forecast"}, data : ForecastDocs, days : 1..MaxDays,
     units : {"metric", "imperial"}]

Init ==
    /\ request \in ForecastRequests
    /\ hashSeed \in Seeds
    /\ pc = "ready"
    /\ daily_forecasts = <<>>
    /\ result = None
    /\ first = None

\* A call of the formatter; after the first call the same document may be
\* formatted again.
FormatForecast ==
    /\ request.op = "forecast"
    /\ \E run \in {ForecastRun(request.data, request.days, request.units)} :
          /\ result' = Outcome(run.out)
          /\ daily_forecasts' = run.buckets
    /\ pc' = "done"
    /\ first' = IF first = None THEN result' ELSE first
    /\ UNCHANGED <<request, hashSeed>>

Next == FormatForecast \/ Restart

Spec == Init /\ [][Next]_vars

----------------------------------------------------------------------------
(* Claims about the compass resolver.                                      *)

SectorWidth == (FullCircle * 100) \div Len(directions)

Dist(a, b) == IF a >= b THEN a - b ELSE b - a

WindDone == request.op = "wind" /\ pc = "done"

\* C6: for every angle d in 0..360 the resolver returns the label of the
\* 22.5-degree sector whose centre is nearest to d (sector 16 is sector 0
\* again), and the pinned values are direction(0) = N, direction(360) = N,
\* direction(180) = S, direction(22.5) = NNE, direction(11.24) = N and
\* direction(11.26) = NNE.
C6_NearestSector ==
    WindDone =>
        /\ \E k \in 0..Len(directions) :
              /\ 2 * Dist(request.degrees, k * SectorWidth) <= SectorWidth
              /\ result.val = directions[(k % Len(directions)) + 1]
        /\ request.degrees = 0 => result.val = "N"
        /\ request.degrees = 36000 => result.val = "N"
        /\ request.degrees = 18000 => result.val = "S"
        /\ request.degrees = 2250 => result.val = "NNE"
        /\ request.degrees = 1124 => result.val = "N"
        /\ request.degrees = 1126 => result.val = "NNE"

C6_Witness == WindDone /\ request.degrees = 1126 /\ result.val = "NNE"

IsTie(d) == (2 * d) % SectorWidth = 0 /\ d % SectorWidth # 0

\* C7 as stated: 11.25 degrees resolves to index 1 (NNE), and every exact
\* sector boundary resolves to the sector above it.
C7_TieRoundsUp ==
    (WindDone /\ IsTie(request.degrees)) =>
        result.val = directions[(((request.degrees \div SectorWidth) + 1) % Len(directions)) + 1]

\* C7 amended: at an exact sector boundary the resolver takes the neighbouring
\* sector with the even index (ties to even), so 11.25 degrees resolves to
\* index 0 (N), 33.75 to index 2 (NE), 56.25 to index 2 (NE).
C7_TieRoundsToEven ==
    (WindDone /\ IsTie(request.degrees)) =>
        LET k == request.degrees \div SectorWidth
            even == IF k % 2 = 0 THEN k ELSE k + 1
        IN  /\ result.val = directions[(even % Len(directions)) + 1]
            /\ request.degrees = 1125 => result.val = "N"
            /\ request.degrees = 3375 => result.val = "NE"
            /\ request.degrees = 5625 => result.val = "NE"

C7_Witness == WindDone /\ request.degrees = 1125 /\ result.val = "N"

----------------------------------------------------------------------------
(* Claims about the forecast aggregator, stated on the input document.     *)

ForecastDone == request.op = "forecast" /\ pc = "done"

InputList == request.data.val["list"].val

\* The date of a sample: its dt_txt up to the first space.
SampleDate(item) ==
    LET s == item.val["dt_txt"].val
        sp == CHOOSE i \in 1..Len(s) : s[i] = " " /\ \A j \in 1..(i - 1) : s[j] # " "
    IN  [k \in 1..(sp - 1) |-> s[k]]

\* A field of a sample that is absent, or present with the shape the
\* aggregator reads.
AbsentOrMap(v) == v.tag \in {"absent", "map"}

NoMismatchSample(item) ==
    /\ AbsentOrMap(item.val["main"]) /\ AbsentOrMap(item.val["wind"])
    /\ AbsentOrMap(item.val["clouds"]) /\ AbsentOrMap(item.val["rain"])
    /\ AbsentOrMap(item.val["snow"])
    /\ item.val["weather"].tag = "absent"
         \/ (item.val["weather"].tag = "seq" /\ Len(item.val["weather"].val) > 0)

\* A sample the grouping loop takes: it carries dt_txt and no field of it
\* has a wrong shape.
GroupedSample(item) == HasKey(item, "dt_txt") /\ NoMismatchSample(item)

AllGrouped == \A i \in 1..Len(InputList) : GroupedSample(InputList[i])

\* The positions of the input list at which a date occurs for the first time.
FirstSeen ==
    { i \in 1..Len(InputList) :
        \A j \in 1..(i - 1) : SampleDate(InputList[j]) # SampleDate(InputList[i]) }

\* The members of a set of positions, in increasing order.
Ascending(S) ==
    CHOOSE f \in [1..Cardinality(S) -> S] :
        \A a, b \in 1..Cardinality(S) : a < b => f[a] < f[b]

\* The distinct dates of the input list in first-seen order.
DistinctDates == [k \in 1..Cardinality(FirstSeen) |-> SampleDate(InputList[Ascending(FirstSeen)[k]])]

\* The positions of the input samples of one date.
PositionsOf(date) == { i \in 1..Len(InputList) : SampleDate(InputList[i]) = date }

\* The number a sample carries at outer.inner, 0 when either key is absent.
Field(item, outer, inner) ==
    IF HasKey(item, outer) /\ HasKey(item.val[outer], inner)
    THEN item.val[outer].val[inner].val ELSE 0

RECURSIVE SumOver(_, _, _)
SumOver(S, outer, inner) ==
    IF S = {} THEN 0
    ELSE LET i == CHOOSE x \in S : TRUE
         IN  Field(InputList[i], outer, inner) + SumOver(S \ {i}, outer, inner)

\* C1: for every forecast document whose samples the grouping loop takes and
\* every positive requestedDays N, the report lists exactly the first
\* min(N, D) distinct dates of the input in first-seen order (D the number
\* of distinct dates): with D < N all D dates, no date without samples, and
\* no error.
C1_FirstDaysDates ==
    (ForecastDone /\ AllGrouped) =>
        /\ result.kind = "report"
        /\ Len(result.daily) = Min(request.days, Len(DistinctDates))
        /\ \A k \in 1..Len(result.daily) :
              /\ result.daily[k].date = DistinctDates[k]
              /\ Len(result.daily[k].timeline) >= 1

C1_Witness ==
    /\ ForecastDone /\ AllGrouped /\ result.kind = "report"
    /\ Len(DistinctDates) = 1 /\ request.days = 2
    /\ Len(result.daily) = 1

\* C2: after the aggregator has grouped an input list, the buckets are in
\* the order in which their dates first occur in the input, and each bucket
\* holds exactly the input samples of its date, in input order, also when
\* the dates are interleaved; the report's timeline of a date follows it.
C2_BucketOrder ==
    (ForecastDone /\ AllGrouped) =>
        /\ Keys(daily_forecasts) = DistinctDates
        /\ \A b \in 1..Len(daily_forecasts) :
              LET pos == Ascending(PositionsOf(daily_forecasts[b].date))
              IN  /\ Len(daily_forecasts[b].forecasts) = Len(pos)
                  /\ \A k \in 1..Len(pos) :
                        daily_forecasts[b].forecasts[k]
                            = Entry(ItemReads(InputList[pos[k]]))
        /\ \A d \in 1..Len(result.daily) :
              LET pos == Ascending(PositionsOf(result.daily[d].date))
              IN  /\ Len(result.daily[d].timeline) = Len(pos)
                  /\ \A k \in 1..Len(pos) :
                        result.daily[d].timeline[k].temp
                            = Field(InputList[pos[k]], "main", "temp")

C2_Witness ==
    /\ ForecastDone /\ AllGrouped
    /\ Len(InputList) = 3
    /\ SampleDate(InputList[1]) = Date1
    /\ SampleDate(InputList[2]) = Date2
    /\ SampleDate(InputList[3]) = Date1
    /\ InputList[1] # InputList[3]
    /\ Keys(daily_forecasts) = <<Date1, Date2>>
    /\ Len(daily_forecasts[1].forecasts) = 2

\* C10: for every date the report lists, the date has at least one sample,
\* the temperature range is the minimum and the maximum of the temp values
\* of exactly that date's samples (minimum <= maximum), the humidity is the
\* mean of that date's humidity values (printed to the nearest percent), and
\* the rain and snow totals are the sums over that date's samples only.
C10_DayAggregates ==
    (ForecastDone /\ result.kind = "report") =>
        \A d \in 1..Len(result.daily) :
            LET day == result.daily[d]
                pos == PositionsOf(day.date)
                temps == { Field(InputList[i], "main", "temp") : i \in pos }
            IN  /\ pos # {}
                /\ day.min_temp \in temps /\ \A t \in temps : day.min_temp <= t
                /\ day.max_temp \in temps /\ \A t \in temps : t <= day.max_temp
                /\ day.min_temp <= day.max_temp
                /\ day.avg_humidity.den > 0
                /\ day.avg_humidity.num * Cardinality(pos)
                       = SumOver(pos, "main", "humidity") * day.avg_humidity.den
                /\ 2 * Dist(day.humidity_text * Cardinality(pos),
                            SumOver(pos, "main", "humidity")) <= Cardinality(pos)
                /\ day.total_rain = SumOver(pos, "rain", "3h")
                /\ day.total_snow = SumOver(pos, "snow", "3h")

C10_Witness ==
    /\ ForecastDone /\ result.kind = "report"
    /\ Len(result.daily) = 2
    /\ Len(result.daily[1].timeline) = 2
    /\ result.daily[1].min_temp < result.daily[1].max_temp
    /\ result.daily[1].total_rain > 0
    /\ result.daily[2].total_rain = 0

----------------------------------------------------------------------------
(* Claims about absent fields, wrong shapes and repeated calls.            *)

CurrentDone == request.op = "current" /\ pc = "done"

NoMismatchCurrent(data) ==
    /\ AbsentOrMap(data.val["sys"]) /\ AbsentOrMap(data.val["main"])
    /\ AbsentOrMap(data.val["wind"]) /\ AbsentOrMap(data.val["clouds"])
    /\ AbsentOrMap(data.val["rain"]) /\ AbsentOrMap(data.val["snow"])

WeatherWellShaped(data) ==
    data.val["weather"].tag = "absent"
        \/ (data.val["weather"].tag = "seq" /\ Len(data.val["weather"].val) > 0)

\* The document has fields missing but none of a wrong shape.
OnlyAbsences ==
    IF request.op = "current"
    THEN NoMismatchCurrent(request.data) /\ WeatherWellShaped(request.data)
    ELSE /\ AbsentOrMap(request.data.val["city"])
         /\ \A i \in 1..Len(InputList) : NoMismatchSample(InputList[i])

\* C3: for every document in which any subset of the fields the formatters
\* read is absent (dt_txt, main, weather, wind, clouds of a sample included),
\* the call succeeds with a report that carries the default of each absent
\* field; it returns no error and raises nothing.
C3_AbsentFieldsDefault ==
    (pc = "done" /\ request.op \in {"current", "forecast"} /\ OnlyAbsences) =>
        /\ result.kind = "report"
        /\ request.op = "current" =>
              /\ ~HasKey(request.data, "name") => result.location = "Unknown"
              /\ ~HasKey(request.data, "sys") => result.country = "Unknown"
              /\ ~HasKey(request.data, "main") => result.temp = 0 /\ result.humidity = 0
              /\ ~HasKey(request.data, "wind") => result.wind = <<"calm">>
              /\ ~HasKey(request.data, "weather") => result.condition = "unknown"
              /\ ~HasKey(request.data, "clouds") => result.clouds = <<>>
        /\ request.op = "forecast" =>
              /\ ~HasKey(request.data, "city") => result.city = "Unknown"
              /\ Len(result.daily) = Min(request.days, Len(daily_forecasts))

\* C4: a current-weather document whose weather is an empty list (and that
\* has no field of a wrong shape) is reported with main and description
\* "Unknown"; no error result.
C4_EmptyWeatherUnknown ==
    (CurrentDone /\ NoMismatchCurrent(request.data)
        /\ request.data.val["weather"] = List(<<>>)) =>
        /\ result.kind = "report"
        /\ result.condition = "unknown"
        /\ result.description = "unknown"

\* A field the formatter reads is present with a wrong shape: a number
\* where it expects a mapping or a list.
HasMismatch ==
    IF request.op = "current"
    THEN ~NoMismatchCurrent(request.data) \/ request.data.val["weather"].tag = "num"
    ELSE \/ ~AbsentOrMap(request.data.val["city"])
         \/ \E i \in 1..Len(InputList) :
               \/ ~AbsentOrMap(InputList[i].val["main"])
               \/ InputList[i].val["weather"].tag = "num"

\* C5: for every document with a field of a wrong shape, the formatter
\* recovers in its own call and returns an error value with a detail
\* string; no exception leaves the call and no report is returned.
C5_MismatchReturnsError ==
    (pc = "done" /\ request.op \in {"current", "forecast"} /\ HasMismatch) =>
        result.kind = "error"

RainEntries(what) ==
    { i \in 1..Len(result.precipitation) : result.precipitation[i].what = what }

\* C8 as stated: the report has a rain entry if and only if the rain key is
\* in the document, with the 1h amount or 0; the same for snow.
C8_EntryIffKey ==
    (CurrentDone /\ result.kind = "report") =>
        \A what \in {"rain", "snow"} :
            /\ RainEntries(what) # {} <=> HasKey(request.data, what)
            /\ \A i \in RainEntries(what) :
                  result.precipitation[i].mm = Field(request.data, what, "1h")

\* C8 amended: the report has a rain entry if and only if the rain key is
\* in the document and its 1h amount (0 when 1h is absent) is positive; the
\* entry then carries that amount.  With rain absent, or present with no
\* positive 1h amount, there is no rain entry.  The same for snow.
C8_EntryIffPositive ==
    (CurrentDone /\ result.kind = "report") =>
        \A what \in {"rain", "snow"} :
            /\ RainEntries(what) # {}
                  <=> (HasKey(request.data, what) /\ Field(request.data, what, "1h") > 0)
            /\ Cardinality(RainEntries(what)) <= 1
            /\ \A i \in RainEntries(what) :
                  result.precipitation[i].mm = Field(request.data, what, "1h")

C8_Witness ==
    /\ CurrentDone /\ result.kind = "report"
    /\ request.data.val["rain"] = EmptyDict
    /\ RainEntries("rain") = {}
    /\ RainEntries("snow") # {}

\* C9: formatting the same document twice with the same parameters gives
\* the same output, the main condition of a day with tied conditions
\* included: every later call returns what the first call returned.
C9_SameOutputTwice ==
    (pc = "done" /\ request.op \in {"current", "forecast"}) => result = first

====
